---- MODULE Spec2Model ----
(***************************************************************************)
(* EmCipher crypto core (libs/emcipher-rust) and its wasm boundary         *)
(* (libs/emcipher-wasm) as a state machine.                                *)
(*                                                                         *)
(* The library is a set of stateless functions.  The state of the model is *)
(* what a caller observes: the last call (and the one before it) with its  *)
(* arguments, its result and the contents of the callee's local key        *)
(* buffers at the return, plus the messages sealed so far.                 *)
(*                                                                         *)
(* Byte strings are sequences over 0..255.  Base64 text is a sequence of   *)
(* alphabet indices 0..63, with 64 for '=' and 65 for any character        *)
(* outside the alphabet.  UTF-8 text that the code only passes through     *)
(* as_bytes() is given directly as its bytes.                              *)
(*                                                                         *)
(* Argon2id, HKDF-SHA256 and XChaCha20-Poly1305 are external crates.  They *)
(* are replaced by small stand-ins with the same interface, the same       *)
(* lengths and the same failure conditions: a polynomial hash over all of  *)
(* the input for the KDFs and for the authentication tag, and a keystream  *)
(* XOR for the cipher body.                                                *)
(***************************************************************************)
EXTENDS Integers, Sequences, FiniteSets, TLC

VARIABLES msgs, call, prev

vars == <<msgs, call, prev>>

\* ----------------------------------------------------------------- bounds
\* Messages kept in the history of SpecNonce.
MaxMsgs == 2
\* Counters 0..MaxCounter are tried by the key-schedule calls.
MaxCounter == 11

\* ------------------------------------------------------ program constants
\* [u8; 32]: master key, message key, prekey, expansion output.
KeyLen == 32
\* [0u8; 24]: the XChaCha20 nonce.
NonceLen == 24

\* ------------------------------------------------------------------ bytes
Zeros(n) == [i \in 1..n |-> 0]

IsZero(b) == \A i \in DOMAIN b : b[i] = 0

\* zeroize::Zeroize for a byte array: every byte becomes 0, the length stays.
Zeroize(b) == [i \in DOMAIN b |-> 0]

Pow2(j) == CASE j = 0 -> 1 [] j = 1 -> 2 [] j = 2 -> 4 [] j = 3 -> 8
             [] j = 4 -> 16 [] j = 5 -> 32 [] j = 6 -> 64 [] j = 7 -> 128

RECURSIVE XorN(_, _, _)
XorN(a, b, n) ==
    IF n = 0 THEN 0
    ELSE ((a + b) % 2) + 2 * XorN(a \div 2, b \div 2, n - 1)

XorByte(a, b) == XorN(a, b, 8)

\* b with bit j of byte i flipped.
FlipBit(b, i, j) == [b EXCEPT ![i] = XorByte(b[i], Pow2(j))]

\* a and b have the same length and differ in exactly one bit.
OneBitApart(a, b) ==
    /\ Len(a) = Len(b)
    /\ \E i \in DOMAIN a :
          /\ \E j \in 0..7 : XorByte(a[i], b[i]) = Pow2(j)
          /\ \A k \in DOMAIN a : k # i => a[k] = b[k]

\* ------------------------------------------------------- Result<T, E>
Ok(v) == [ok |-> TRUE, val |-> v, err |-> "none"]

Err(e) == [ok |-> FALSE, val |-> <<>>, err |-> e]

\* #[error("...")] of CryptoError: the text Display gives each variant.
ErrorText(e) ==
    CASE e = "Argon2"  -> "argon2 failure"
      [] e = "Hkdf"    -> "hkdf expand failure"
      [] e = "Encrypt" -> "encrypt failure"
      [] e = "Decrypt" -> "decrypt failure (bad key/nonce/AAD/ciphertext)"
      [] e = "B64"     -> "bad base64 input"
      [] e = "KeyLen"  -> "invalid key length"

\* ----------------------------------------------------------------- base64
PadSym == 64

ByteAt(b, i) == IF i <= Len(b) THEN b[i] ELSE 0

\* B64.encode: the STANDARD engine, three bytes to four symbols, '=' padded.
B64Encode(b) ==
    LET n == Len(b)
        g == (n + 2) \div 3
        sym(j) ==
            LET q  == (j - 1) \div 4
                r  == (j - 1) % 4
                b1 == ByteAt(b, 3 * q + 1)
                b2 == ByteAt(b, 3 * q + 2)
                b3 == ByteAt(b, 3 * q + 3)
            IN  CASE r = 0 -> b1 \div 4
                  [] r = 1 -> (b1 % 4) * 16 + (b2 \div 16)
                  [] r = 2 -> IF 3 * q + 2 > n THEN PadSym
                              ELSE (b2 % 16) * 4 + (b3 \div 64)
                  [] r = 3 -> IF 3 * q + 3 > n THEN PadSym ELSE b3 % 64
    IN  [j \in 1..(4 * g) |-> sym(j)]

\* Number of '=' at the end of s (0, 1 or 2 counted).
NumPad(s) ==
    LET n == Len(s)
    IN  IF n >= 1 /\ s[n] = PadSym
        THEN (IF n >= 2 /\ s[n - 1] = PadSym THEN 2 ELSE 1)
        ELSE 0

\* B64.decode succeeds: length a multiple of four, alphabet symbols only,
\* canonical padding at the end only, and no stray bits in the last symbol.
B64DecodeOk(s) ==
    LET n  == Len(s)
        np == NumPad(s)
    IN  /\ n % 4 = 0
        /\ \A i \in 1..n : s[i] \in 0..PadSym
        /\ \A i \in 1..n : s[i] = PadSym => i > n - np
        /\ np = 1 => s[n - 1] % 4 = 0
        /\ np = 2 => s[n - 2] % 16 = 0

\* B64.decode: the bytes of a text that B64DecodeOk accepts.
B64Decode(s) ==
    LET n  == Len(s)
        np == NumPad(s)
        c(i) == IF s[i] = PadSym THEN 0 ELSE s[i]
        byte(k) ==
            LET q == (k - 1) \div 3
                r == (k - 1) % 3
            IN  CASE r = 0 -> c(4 * q + 1) * 4 + (c(4 * q + 2) \div 16)
                  [] r = 1 -> (c(4 * q + 2) % 16) * 16 + (c(4 * q + 3) \div 4)
                  [] r = 2 -> (c(4 * q + 3) % 4) * 64 + c(4 * q + 4)
    IN  [k \in 1..(3 * (n \div 4) - np) |-> byte(k)]

\* ------------------------------------------------- stand-in primitives
RECURSIVE PowMod(_, _, _)
PowMod(r, k, p) ==
    IF k = 0 THEN 1
    ELSE IF k % 2 = 0
         THEN LET h == PowMod(r, k \div 2, p) IN (h * h) % p
         ELSE (r * PowMod(r, k - 1, p)) % p

\* The polynomial with coefficients s[lo..hi] (each plus one) at r, modulo p.
RECURSIVE Poly(_, _, _, _, _)
Poly(s, lo, hi, r, p) ==
    IF lo > hi THEN 0
    ELSE IF lo = hi THEN (s[lo] + 1) % p
    ELSE LET mid == (lo + hi) \div 2
         IN  (Poly(s, lo, mid, r, p) * PowMod(r, hi - mid, p)
                + Poly(s, mid + 1, hi, r, p)) % p

\* Two polynomial hashes of s modulo two primes.
Digest(s) ==
    <<(PowMod(131, Len(s), 32749) + Poly(s, 1, Len(s), 131, 32749)) % 32749,
      (PowMod(137, Len(s), 32719) + Poly(s, 1, Len(s), 137, 32719)) % 32719>>

\* n bytes spread from a digest; the first four carry the digest itself.
Spread(d, n) ==
    [i \in 1..n |->
        CASE i = 1 -> d[1] % 256
          [] i = 2 -> d[1] \div 256
          [] i = 3 -> d[2] % 256
          [] i = 4 -> d[2] \div 256
          [] OTHER -> (d[1] + i * d[2] + i * i) % 256]

\* Separator between the parts of a hashed input (not a byte value).
Sep == <<256>>

\* Params::new(m_cost, t_cost, p_cost, None): the bounds Argon2 sets.
ParamsNewOk(kdf) ==
    /\ kdf.p_cost >= 1
    /\ kdf.t_cost >= 1
    /\ kdf.m_cost_kib >= 8 * kdf.p_cost

\* argon.hash_password_into(seed, salt, &mut out): rejects a salt shorter
\* than eight bytes before it writes anything; else fills out.
Argon2HashInto(kdf, seed, salt, out) ==
    IF Len(salt) < 8
    THEN [ok |-> FALSE, out |-> out]
    ELSE [ok |-> TRUE,
          out |-> Spread(Digest(seed \o Sep \o salt \o Sep
                                 \o <<kdf.m_cost_kib, kdf.t_cost, kdf.p_cost>>),
                         Len(out))]

\* Hkdf::<Sha256>::new(None, ikm).expand(info, &mut okm): fails only when
\* more than 255 hash blocks are asked for, before it writes anything.
HkdfExpand(ikm, info, okm) ==
    IF Len(okm) > 255 * 32
    THEN [ok |-> FALSE, okm |-> okm]
    ELSE [ok |-> TRUE, okm |-> Spread(Digest(ikm \o Sep \o info), Len(okm))]

\* The Poly1305 tag: 16 bytes over key, nonce, aad and the cipher body.
AeadTag(key, nonce, aad, body) ==
    Spread(Digest(key \o nonce \o <<Len(aad)>> \o aad \o body), 16)

\* The XChaCha20 keystream byte at position i.
KeyStream(key, nonce, i) ==
    LET d == Digest(nonce \o key) IN (d[1] + i * d[2]) % 256

AeadBody(key, nonce, text) ==
    [i \in DOMAIN text |-> XorByte(text[i], KeyStream(key, nonce, i))]

\* cipher.encrypt(nonce, Payload { msg, aad }): body followed by the tag.
AeadEncrypt(key, nonce, aad, pt) ==
    LET body == AeadBody(key, nonce, pt)
    IN  body \o AeadTag(key, nonce, aad, body)

\* cipher.decrypt(nonce, Payload { msg, aad }): the tag is verified first;
\* no plaintext is released unless it matches.
AeadDecrypt(key, nonce, aad, ct) ==
    IF Len(ct) < 16 THEN [ok |-> FALSE, pt |-> <<>>]
    ELSE LET body == SubSeq(ct, 1, Len(ct) - 16)
             tag  == SubSeq(ct, Len(ct) - 15, Len(ct))
         IN  IF tag = AeadTag(key, nonce, aad, body)
             THEN [ok |-> TRUE, pt |-> AeadBody(key, nonce, body)]
             ELSE [ok |-> FALSE, pt |-> <<>>]

\* ---------------------------------------------------------------- text
\* "emcipher:km:" and "emcipher:msg:" as bytes.
KmPrefix == <<101, 109, 99, 105, 112, 104, 101, 114, 58, 107, 109, 58>>

MsgPrefix == <<101, 109, 99, 105, 112, 104, 101, 114, 58, 109, 115, 103, 58>>

\* FormatU64 keeping the last digit only.
FormatU64LastDigit(n) == <<48 + (n % 10)>>

\* {counter} for an unsigned integer: its decimal digits, no leading zero.
RECURSIVE FormatU64(_)
FormatU64(n) ==
    IF n < 10 THEN <<48 + n>> ELSE FormatU64(n \div 10) \o <<48 + (n % 10)>>

\* KmInfo without the conversation id.
KmInfoNoConv(conv_id) == KmPrefix

\* format!("emcipher:km:{conv_id}").as_bytes()
KmInfo(conv_id) == KmPrefix \o conv_id

\* format!("emcipher:msg:{counter}").as_bytes()
MsgInfo(counter) == MsgPrefix \o FormatU64(counter)

\* ---------------------------------------------------------- frames
\* The key-bearing local buffers of a call at its return; <<>> for a buffer
\* the call never allocated.
NoFrame == [prekey |-> <<>>, out |-> <<>>, km |-> <<>>, k |-> <<>>, arr |-> <<>>]

\* ------------------------------------------------------- the crypto core
\* DeriveMasterKey without prekey.zeroize().
DeriveMasterKeyKeepsPrekey(seed, salt, kdf, conv_id) ==
    IF ~ParamsNewOk(kdf)
    THEN [res |-> Err("Argon2"), info |-> <<>>, prekey |-> <<>>]
    ELSE LET a == Argon2HashInto(kdf, seed, salt, Zeros(KeyLen))
         IN  IF ~a.ok
             THEN [res |-> Err("Argon2"), info |-> <<>>, prekey |-> a.out]
             ELSE LET h == HkdfExpand(a.out, KmInfo(conv_id), Zeros(KeyLen))
                  IN  IF ~h.ok
                      THEN [res |-> Err("Hkdf"), info |-> KmInfo(conv_id),
                            prekey |-> a.out]
                      ELSE [res |-> Ok(h.okm), info |-> KmInfo(conv_id),
                            prekey |-> a.out]

\* derive_master_key: the result, the info string given to the expansion
\* (<<>> when it is not reached) and the prekey buffer at the return.
DeriveMasterKey(seed, salt, kdf, conv_id) ==
    IF ~ParamsNewOk(kdf)
    THEN [res |-> Err("Argon2"), info |-> <<>>, prekey |-> <<>>]
    ELSE LET a == Argon2HashInto(kdf, seed, salt, Zeros(KeyLen))
         IN  IF ~a.ok
             THEN [res |-> Err("Argon2"), info |-> <<>>, prekey |-> a.out]
             ELSE LET h == HkdfExpand(a.out, KmInfo(conv_id), Zeros(KeyLen))
                  IN  IF ~h.ok
                      THEN [res |-> Err("Hkdf"), info |-> KmInfo(conv_id),
                            prekey |-> a.out]
                      ELSE [res |-> Ok(h.okm), info |-> KmInfo(conv_id),
                            prekey |-> Zeroize(a.out)]

\* derive_message_key: the result, the info string given to the expansion
\* and the `out` buffer at the return.
DeriveMessageKey(km, counter) ==
    LET h == HkdfExpand(km, MsgInfo(counter), Zeros(KeyLen))
    IN  IF ~h.ok
        THEN [res |-> Err("Hkdf"), info |-> MsgInfo(counter), out |-> h.okm]
        ELSE [res |-> Ok(h.okm), info |-> MsgInfo(counter), out |-> Zeroize(h.okm)]

\* EncryptAead taking its nonce from the key instead of the random source.
EncryptAeadNonceFromKey(k_msg, plaintext, aad, rng) ==
    LET nonce_bytes == SubSeq(k_msg, 1, NonceLen)
        ct == AeadEncrypt(k_msg, nonce_bytes, aad, plaintext)
    IN  [ok |-> TRUE, n_b64 |-> B64Encode(nonce_bytes), ct_b64 |-> B64Encode(ct),
         err |-> "none"]

\* encrypt_aead: rng is what OsRng.fill_bytes puts into nonce_bytes.  The
\* seal itself fails only for a plaintext beyond the cipher's length limit,
\* which no input here comes near, so CryptoError::Encrypt is never returned.
EncryptAead(k_msg, plaintext, aad, rng) ==
    LET nonce_bytes == rng
        ct == AeadEncrypt(k_msg, nonce_bytes, aad, plaintext)
    IN  [ok |-> TRUE, n_b64 |-> B64Encode(nonce_bytes), ct_b64 |-> B64Encode(ct),
         err |-> "none"]

\* DecryptAead opening with an empty aad instead of the caller's.
DecryptAeadNoAad(k_msg, nonce_b64, ct_b64, aad) ==
    IF ~B64DecodeOk(nonce_b64) THEN Err("B64")
    ELSE IF Len(B64Decode(nonce_b64)) # NonceLen THEN Err("B64")
    ELSE IF ~B64DecodeOk(ct_b64) THEN Err("B64")
    ELSE LET r == AeadDecrypt(k_msg, B64Decode(nonce_b64), <<>>, B64Decode(ct_b64))
         IN  IF r.ok THEN Ok(r.pt) ELSE Err("Decrypt")

\* DecryptAead handing back an empty plaintext when the tag does not verify.
DecryptAeadUnchecked(k_msg, nonce_b64, ct_b64, aad) ==
    IF ~B64DecodeOk(nonce_b64) THEN Err("B64")
    ELSE IF Len(B64Decode(nonce_b64)) # NonceLen THEN Err("B64")
    ELSE IF ~B64DecodeOk(ct_b64) THEN Err("B64")
    ELSE LET r == AeadDecrypt(k_msg, B64Decode(nonce_b64), aad, B64Decode(ct_b64))
         IN  IF r.ok THEN Ok(r.pt) ELSE Ok(<<>>)

\* DecryptAead reporting a ciphertext shorter than the tag as bad input.
DecryptAeadShortCt(k_msg, nonce_b64, ct_b64, aad) ==
    IF ~B64DecodeOk(nonce_b64) THEN Err("B64")
    ELSE IF Len(B64Decode(nonce_b64)) # NonceLen THEN Err("B64")
    ELSE IF ~B64DecodeOk(ct_b64) THEN Err("B64")
    ELSE IF Len(B64Decode(ct_b64)) < 16 THEN Err("B64")
    ELSE LET r == AeadDecrypt(k_msg, B64Decode(nonce_b64), aad, B64Decode(ct_b64))
         IN  IF r.ok THEN Ok(r.pt) ELSE Err("Decrypt")

\* decrypt_aead
DecryptAead(k_msg, nonce_b64, ct_b64, aad) ==
    IF ~B64DecodeOk(nonce_b64) THEN Err("B64")
    ELSE IF Len(B64Decode(nonce_b64)) # NonceLen THEN Err("B64")
    ELSE IF ~B64DecodeOk(ct_b64) THEN Err("B64")
    ELSE LET r == AeadDecrypt(k_msg, B64Decode(nonce_b64), aad, B64Decode(ct_b64))
         IN  IF r.ok THEN Ok(r.pt) ELSE Err("Decrypt")

\* ------------------------------------------------------ parameter table
DESKTOP_STRONG == [m_cost_kib |-> 262144, t_cost |-> 3, p_cost |-> 1]

MOBILE_STRONG == [m_cost_kib |-> 65536, t_cost |-> 4, p_cost |-> 1]

LOW_POWER == [m_cost_kib |-> 32768, t_cost |-> 4, p_cost |-> 1]

\* ParamsFromProfile matching the tags whatever their case.
ParamsFromProfileAnyCase(profile) ==
    CASE profile \in {"desktop", "Desktop"} -> DESKTOP_STRONG
      [] profile \in {"mobile", "Mobile"}   -> MOBILE_STRONG
      [] OTHER                              -> LOW_POWER

\* params_from_profile: an exact match on the two known tags, else LOW_POWER.
ParamsFromProfile(profile) ==
    CASE profile = "desktop" -> DESKTOP_STRONG
      [] profile = "mobile"  -> MOBILE_STRONG
      [] OTHER               -> LOW_POWER

\* ------------------------------------------------------ the wasm boundary
\* Display of base64::DecodeError, by kind (byte values and offsets left out).
B64ErrorText(s) ==
    IF \E i \in 1..Len(s) : s[i] \notin 0..PadSym THEN "Invalid byte"
    ELSE IF Len(s) % 4 # 0 THEN "Invalid input length"
    ELSE IF \E i \in 1..Len(s) : s[i] = PadSym /\ i <= Len(s) - NumPad(s)
         THEN "Invalid padding"
    ELSE "Invalid last symbol"

\* String::from_utf8_lossy(&pt): a byte below 128 is its own character, any
\* other byte is shown as U+FFFD (multi-byte sequences are not modelled).
Utf8Lossy(b) == [i \in DOMAIN b |-> IF b[i] < 128 THEN b[i] ELSE 65533]

\* derive_master_key_b64
DeriveMasterKeyB64(seed, salt_b64, conv_id, profile) ==
    IF ~B64DecodeOk(salt_b64)
    THEN [res |-> Err("bad salt b64: " \o B64ErrorText(salt_b64)), frame |-> NoFrame]
    ELSE LET r == DeriveMasterKey(seed, B64Decode(salt_b64),
                                  ParamsFromProfile(profile), conv_id)
         IN  IF ~r.res.ok
             THEN [res |-> Err("derive_master_key: " \o ErrorText(r.res.err)),
                   frame |-> [NoFrame EXCEPT !.prekey = r.prekey]]
             ELSE [res |-> Ok(B64Encode(r.res.val)),
                   frame |-> [NoFrame EXCEPT !.prekey = r.prekey, !.km = r.res.val]]

\* derive_message_key_b64: counter is a u32, widened to u64 unchanged.
DeriveMessageKeyB64(km_b64, counter) ==
    IF ~B64DecodeOk(km_b64)
    THEN [res |-> Err("bad km b64: " \o B64ErrorText(km_b64)), frame |-> NoFrame]
    ELSE LET km == B64Decode(km_b64)
         IN  IF Len(km) # KeyLen
             THEN [res |-> Err("km must be 32 bytes"),
                   frame |-> [NoFrame EXCEPT !.km = km]]
             ELSE LET arr == km
                      r   == DeriveMessageKey(arr, counter)
                  IN  IF ~r.res.ok
                      THEN [res |-> Err("derive_message_key: " \o ErrorText(r.res.err)),
                            frame |-> [NoFrame EXCEPT !.km = km, !.arr = arr,
                                                      !.out = r.out]]
                      ELSE [res |-> Ok(B64Encode(r.res.val)),
                            frame |-> [NoFrame EXCEPT !.km = km, !.arr = arr,
                                                      !.out = r.out]]

\* encrypt_aead_b64: the object {nonce_b64, ct_b64}, or the error string
\* ("encrypt: ..." is not among them, as encrypt_aead returns no error).
EncryptAeadB64(k_b64, plaintext_utf8, aad_utf8, rng) ==
    IF ~B64DecodeOk(k_b64)
    THEN [res |-> [ok |-> FALSE, n_b64 |-> <<>>, ct_b64 |-> <<>>,
                   err |-> "bad k b64: " \o B64ErrorText(k_b64)],
          frame |-> NoFrame]
    ELSE LET k == B64Decode(k_b64)
         IN  IF Len(k) # KeyLen
             THEN [res |-> [ok |-> FALSE, n_b64 |-> <<>>, ct_b64 |-> <<>>,
                            err |-> "key must be 32 bytes"],
                   frame |-> [NoFrame EXCEPT !.k = k]]
             ELSE [res |-> EncryptAead(k, plaintext_utf8, aad_utf8, rng),
                   frame |-> [NoFrame EXCEPT !.k = k]]

\* decrypt_aead_b64
DecryptAeadB64(k_b64, nonce_b64, ct_b64, aad_utf8) ==
    IF ~B64DecodeOk(k_b64)
    THEN [res |-> Err("bad k b64: " \o B64ErrorText(k_b64)), frame |-> NoFrame]
    ELSE LET k == B64Decode(k_b64)
         IN  IF Len(k) # KeyLen
             THEN [res |-> Err("key must be 32 bytes"),
                   frame |-> [NoFrame EXCEPT !.k = k]]
             ELSE LET r == DecryptAead(k, nonce_b64, ct_b64, aad_utf8)
                  IN  IF ~r.ok
                      THEN [res |-> Err("decrypt: " \o ErrorText(r.err)),
                            frame |-> [NoFrame EXCEPT !.k = k]]
                      ELSE [res |-> Ok(Utf8Lossy(r.val)),
                            frame |-> [NoFrame EXCEPT !.k = k]]

\* ------------------------------------------------------------ the inputs
\* Two message keys one bit apart, and a key one byte short.
K1 == [i \in 1..KeyLen |-> i]

K2 == [K1 EXCEPT ![7] = 135]

ShortKey == [i \in 1..(KeyLen - 1) |-> i]

Keys == {K1, K2}

\* "hello, emcipher!"
Hello == <<104, 101, 108, 108, 111, 44, 32, 101, 109, 99, 105, 112, 104, 101, 114, 33>>

Plaintexts == {<<>>, Hello}

\* "conv=123e4567;msg=1;v=1" and "conv=123e4567;msg=2;v=1"
Aad1 == <<99, 111, 110, 118, 61, 49, 50, 51, 101, 52, 53, 54, 55, 59, 109, 115,
          103, 61, 49, 59, 118, 61, 49>>

Aad2 == <<99, 111, 110, 118, 61, 49, 50, 51, 101, 52, 53, 54, 55, 59, 109, 115,
          103, 61, 50, 59, 118, 61, 49>>

\* The associated data messages are sealed with, and those they are opened with.
SealAADs == {<<>>, Aad1}

AADs == {<<>>, Aad1, Aad2}

\* What OsRng may hand out: any 24 bytes, the same ones twice included.
RngOutputs == {[i \in 1..NonceLen |-> 255 - i], [i \in 1..NonceLen |-> (7 * i) % 256]}

\* A text with a character outside the alphabet, and one of a bad length.
BadTexts == {<<65, 0, 0, 0>>, <<0, 0, 0>>}

KeyTexts == {B64Encode(K1), B64Encode(K2), B64Encode(ShortKey), <<65, 0, 0, 0>>}

\* Nonce texts tried against a sealed message m: its own, every other draw,
\* its nonce one byte short, and malformed text.
NonceTexts(m) ==
    {m.n_b64, B64Encode(SubSeq(m.rng, 1, NonceLen - 1))}
        \cup {B64Encode(r) : r \in RngOutputs} \cup BadTexts

\* Ciphertext texts tried against m: its own, cut below the tag length,
\* empty, and malformed text.
CtTexts(m) ==
    {m.ct_b64, B64Encode(SubSeq(B64Decode(m.ct_b64), 1, 15)), <<>>, <<0, 0, 0>>}

\* ------------------------------------------------------------- the state
NoCall == [fn |-> "none", args |-> <<>>, res |-> Ok(<<>>), frame |-> NoFrame]

Init ==
    /\ msgs = <<>>
    /\ call = NoCall
    /\ prev = NoCall

\* The record kept of a sealed message; rng is the draw the call consumed.
Sealed(k, pt, aad, rng, r) ==
    [k |-> k, pt |-> pt, aad |-> aad, rng |-> rng, n_b64 |-> r.n_b64,
     ct_b64 |-> r.ct_b64]

\* A decrypt call has a well-formed key, nonce and ciphertext.
WellFormed(k, n_b64, ct_b64) ==
    /\ Len(k) = KeyLen
    /\ B64DecodeOk(n_b64)
    /\ Len(B64Decode(n_b64)) = NonceLen
    /\ B64DecodeOk(ct_b64)

\* ------------------------------------------------- actions: AEAD engine
\* A run of Spec seals one message and then opens it once, in one of the
\* ways below; the functions keep no state, so longer runs add nothing.

\* encrypt_aead
CallEncryptAead ==
    /\ call = NoCall
    /\ \E k \in Keys, pt \in Plaintexts, aad \in SealAADs, rng \in RngOutputs :
          LET r == EncryptAead(k, pt, aad, rng)
          IN  /\ call' = [fn |-> "encrypt_aead",
                          args |-> [k |-> k, pt |-> pt, aad |-> aad],
                          res |-> r, frame |-> NoFrame]
              /\ msgs' = <<Sealed(k, pt, aad, rng, r)>>
              /\ UNCHANGED prev

\* A message was sealed by the last call.
JustSealed ==
    /\ Len(msgs) = 1
    /\ call.fn \in {"encrypt_aead", "encrypt_aead_b64"}

\* decrypt_aead on the arguments given.
OpenWith(k, n_b64, ct_b64, aad) ==
    /\ call' = [fn |-> "decrypt_aead",
                args |-> [k |-> k, n_b64 |-> n_b64, ct_b64 |-> ct_b64,
                          aad |-> aad],
                res |-> DecryptAead(k, n_b64, ct_b64, aad), frame |-> NoFrame]
    /\ UNCHANGED <<msgs, prev>>

\* decrypt_aead with exactly what encrypt_aead returned.
CallDecryptSealed ==
    /\ JustSealed
    /\ OpenWith(msgs[1].k, msgs[1].n_b64, msgs[1].ct_b64, msgs[1].aad)

\* decrypt_aead after one bit of the ciphertext, the nonce or the aad flipped.
CallDecryptFlipped ==
    /\ JustSealed
    /\ LET m  == msgs[1]
           ct == B64Decode(m.ct_b64)
           n  == B64Decode(m.n_b64)
       IN  \/ \E i \in DOMAIN ct, j \in 0..7 :
                 OpenWith(m.k, m.n_b64, B64Encode(FlipBit(ct, i, j)), m.aad)
           \/ \E i \in DOMAIN n, j \in 0..7 :
                 OpenWith(m.k, B64Encode(FlipBit(n, i, j)), m.ct_b64, m.aad)
           \/ \E i \in DOMAIN m.aad, j \in 0..7 :
                 OpenWith(m.k, m.n_b64, m.ct_b64, FlipBit(m.aad, i, j))

\* decrypt_aead with another key, nonce, ciphertext or aad, malformed ones
\* included.
CallDecryptOther ==
    /\ JustSealed
    /\ \E k \in Keys, n_b64 \in NonceTexts(msgs[1]), ct_b64 \in CtTexts(msgs[1]),
          aad \in AADs :
          OpenWith(k, n_b64, ct_b64, aad)

\* encrypt_aead_b64
CallEncryptAeadB64 ==
    /\ call = NoCall
    /\ \E k_b64 \in KeyTexts, rng \in RngOutputs :
          LET r == EncryptAeadB64(k_b64, Hello, Aad1, rng)
          IN  /\ call' = [fn |-> "encrypt_aead_b64",
                          args |-> [k_b64 |-> k_b64, pt |-> Hello, aad |-> Aad1],
                          res |-> r.res, frame |-> r.frame]
              /\ msgs' = IF r.res.ok
                         THEN <<Sealed(B64Decode(k_b64), Hello, Aad1, rng, r.res)>>
                         ELSE msgs
              /\ UNCHANGED prev

\* decrypt_aead_b64
CallDecryptAeadB64 ==
    /\ JustSealed
    /\ \E k_b64 \in KeyTexts, n_b64 \in NonceTexts(msgs[1]),
          ct_b64 \in CtTexts(msgs[1]), aad \in {msgs[1].aad, Aad2} :
          LET r == DecryptAeadB64(k_b64, n_b64, ct_b64, aad)
          IN  /\ call' = [fn |-> "decrypt_aead_b64",
                          args |-> [k_b64 |-> k_b64, n_b64 |-> n_b64,
                                    ct_b64 |-> ct_b64, aad |-> aad],
                          res |-> r.res, frame |-> r.frame]
              /\ UNCHANGED <<msgs, prev>>

Next ==
    \/ CallEncryptAead
    \/ CallDecryptSealed
    \/ CallDecryptFlipped
    \/ CallDecryptOther
    \/ CallEncryptAeadB64
    \/ CallDecryptAeadB64

Spec == Init /\ [][Next]_vars

\* ------------------------------------------- actions: nonce history
\* A run of SpecNonce is a sequence of encrypt_aead calls, each sealed
\* message appended to msgs.
CallEncryptAeadNext ==
    /\ Len(msgs) < MaxMsgs
    /\ \E k \in Keys, pt \in Plaintexts, aad \in SealAADs, rng \in RngOutputs :
          LET r == EncryptAead(k, pt, aad, rng)
          IN  /\ call' = [fn |-> "encrypt_aead",
                          args |-> [k |-> k, pt |-> pt, aad |-> aad],
                          res |-> r, frame |-> NoFrame]
              /\ msgs' = Append(msgs, Sealed(k, pt, aad, rng, r))
              /\ UNCHANGED prev

NextNonce == CallEncryptAeadNext

SpecNonce == Init /\ [][NextNonce]_vars

\* --------------------------------------------- actions: key schedule
\* "correct horse battery staple" and "hunter2"
Seed1 == <<99, 111, 114, 114, 101, 99, 116, 32, 104, 111, 114, 115, 101, 32, 98,
           97, 116, 116, 101, 114, 121, 32, 115, 116, 97, 112, 108, 101>>

Seed2 == <<104, 117, 110, 116, 101, 114, 50>>

Seeds == {Seed1, Seed2}

\* Sixteen bytes of 0x07, and a salt Argon2 rejects as too short.
Salt7 == [i \in 1..16 |-> 7]

ShortSalt == <<7, 7, 7, 7>>

Salts == {Salt7, ShortSalt}

\* Two presets and a parameter set Params::new rejects (no iterations).
Kdfs == {DESKTOP_STRONG, MOBILE_STRONG,
         [m_cost_kib |-> 262144, t_cost |-> 0, p_cost |-> 1]}

\* "123e4567-e89b-12d3-a456-426614174000", the same ending in 1, and "".
ConvA == <<49, 50, 51, 101, 52, 53, 54, 55, 45, 101, 56, 57, 98, 45, 49, 50, 100,
           51, 45, 97, 52, 53, 54, 45, 52, 50, 54, 54, 49, 52, 49, 55, 52, 48, 48,
           48>>

ConvB == [ConvA EXCEPT ![36] = 49]

Convs == {ConvA, ConvB, <<>>}

Profiles == {"desktop", "mobile", "Desktop", "", "server"}

\* The master keys of the two conversations of Seed1.
KmA == DeriveMasterKey(Seed1, Salt7, DESKTOP_STRONG, ConvA).res.val

KmB == DeriveMasterKey(Seed1, Salt7, DESKTOP_STRONG, ConvB).res.val

Counters == 0..MaxCounter \cup {2147483647}

\* A run of SpecKdf makes one call and then a second call of the same
\* function; prev is the first call, call the second.
MayCall(fn) == prev = NoCall /\ call.fn \in {"none", fn}

Record(fn, args, res, frame) ==
    /\ call' = [fn |-> fn, args |-> args, res |-> res, frame |-> frame]
    /\ prev' = call
    /\ UNCHANGED msgs

\* derive_master_key
CallDeriveMasterKey ==
    /\ MayCall("derive_master_key")
    /\ \E seed \in Seeds, salt \in Salts, kdf \in Kdfs, conv_id \in Convs :
          LET r == DeriveMasterKey(seed, salt, kdf, conv_id)
          IN  Record("derive_master_key",
                     [seed |-> seed, salt |-> salt, kdf |-> kdf,
                      conv_id |-> conv_id, info |-> r.info],
                     r.res, [NoFrame EXCEPT !.prekey = r.prekey])

\* derive_message_key
CallDeriveMessageKey ==
    /\ MayCall("derive_message_key")
    /\ \E km \in {KmA, KmB}, counter \in Counters :
          LET r == DeriveMessageKey(km, counter)
          IN  Record("derive_message_key",
                     [km |-> km, counter |-> counter, info |-> r.info],
                     r.res, [NoFrame EXCEPT !.out = r.out])

\* derive_master_key_b64
CallDeriveMasterKeyB64 ==
    /\ MayCall("derive_master_key_b64")
    /\ \E salt_b64 \in {B64Encode(Salt7), B64Encode(ShortSalt), <<65, 0, 0, 0>>},
          conv_id \in {ConvA, ConvB}, profile \in Profiles :
          LET r == DeriveMasterKeyB64(Seed1, salt_b64, conv_id, profile)
          IN  Record("derive_master_key_b64",
                     [seed |-> Seed1, salt_b64 |-> salt_b64, conv_id |-> conv_id,
                      profile |-> profile],
                     r.res, r.frame)

\* derive_message_key_b64
CallDeriveMessageKeyB64 ==
    /\ MayCall("derive_message_key_b64")
    /\ \E km_b64 \in {B64Encode(KmA), B64Encode(ShortKey), <<0, 0, 0>>},
          counter \in Counters :
          LET r == DeriveMessageKeyB64(km_b64, counter)
          IN  Record("derive_message_key_b64",
                     [km_b64 |-> km_b64, counter |-> counter],
                     r.res, r.frame)

NextKdf ==
    \/ CallDeriveMasterKey
    \/ CallDeriveMessageKey
    \/ CallDeriveMasterKeyB64
    \/ CallDeriveMessageKeyB64

SpecKdf == Init /\ [][NextKdf]_vars

\* ------------------------------------------------------------- claims
\* The decrypt call was given exactly what sealing m returned.
OpensSealed(m) ==
    /\ call.fn = "decrypt_aead"
    /\ call.args = [k |-> m.k, n_b64 |-> m.n_b64, ct_b64 |-> m.ct_b64,
                    aad |-> m.aad]

\* C1. Round trip: decrypt_aead given the key, the aad and the (nonce,
\* ciphertext) that encrypt_aead returned for a plaintext returns exactly
\* that plaintext, not an error.
RoundTrip ==
    (Len(msgs) = 1 /\ OpensSealed(msgs[1])) => call.res = Ok(msgs[1].pt)

\* A non-empty plaintext sealed under a non-empty aad came back.
RoundTripWitness ==
    /\ Len(msgs) = 1
    /\ OpensSealed(msgs[1])
    /\ msgs[1].pt = Hello
    /\ msgs[1].aad = Aad1
    /\ call.res.ok
    /\ call.res.val = Hello

\* The call's ciphertext differs from m's in one bit of the decoded bytes.
CtFlipped(m) ==
    /\ B64DecodeOk(call.args.ct_b64)
    /\ OneBitApart(B64Decode(call.args.ct_b64), B64Decode(m.ct_b64))
    /\ call.args.n_b64 = m.n_b64
    /\ call.args.aad = m.aad

\* The call's nonce differs from m's in one bit of the decoded 24 bytes.
NonceFlipped(m) ==
    /\ B64DecodeOk(call.args.n_b64)
    /\ OneBitApart(B64Decode(call.args.n_b64), B64Decode(m.n_b64))
    /\ call.args.ct_b64 = m.ct_b64
    /\ call.args.aad = m.aad

\* The call's aad differs from m's in one bit.
AadFlipped(m) ==
    /\ OneBitApart(call.args.aad, m.aad)
    /\ call.args.n_b64 = m.n_b64
    /\ call.args.ct_b64 = m.ct_b64

\* The message was sealed with "...msg=1..." and is opened with "...msg=2...".
AadOfNextMessage(m) ==
    /\ m.aad = Aad1
    /\ call.args.aad = Aad2
    /\ call.args.n_b64 = m.n_b64
    /\ call.args.ct_b64 = m.ct_b64

\* C2. Tamper detection: decrypt_aead with the sealing key and one bit
\* flipped in the ciphertext bytes, in the nonce or in the aad (or with the
\* aad of message 2 for message 1) fails with CryptoError::Decrypt and
\* returns no plaintext.
TamperDetected ==
    (/\ Len(msgs) = 1
     /\ call.fn = "decrypt_aead"
     /\ call.args.k = msgs[1].k
     /\ \/ CtFlipped(msgs[1])
        \/ NonceFlipped(msgs[1])
        \/ AadFlipped(msgs[1])
        \/ AadOfNextMessage(msgs[1]))
    => call.res = Err("Decrypt")

\* A nonce bit was flipped under a message with plaintext and aad, and the
\* call was refused.
TamperWitness ==
    /\ Len(msgs) = 1
    /\ call.fn = "decrypt_aead"
    /\ call.args.k = msgs[1].k
    /\ msgs[1].pt = Hello
    /\ msgs[1].aad = Aad1
    /\ NonceFlipped(msgs[1])
    /\ call.res = Err("Decrypt")

\* C3. Length validation, as claimed: decrypt_aead reports a nonce that
\* decodes to other than 24 bytes with the input-length error
\* (CryptoError::KeyLen), not with the encoding error.
NonceLengthError ==
    (/\ call.fn = "decrypt_aead"
     /\ B64DecodeOk(call.args.n_b64)
     /\ Len(B64Decode(call.args.n_b64)) # NonceLen)
    => call.res = Err("KeyLen")

\* C4. Failure indistinguishability: every failing decrypt call on
\* well-formed input (32-byte key, valid base64, 24-byte nonce) returns one
\* and the same error, CryptoError::Decrypt from decrypt_aead and one fixed
\* string from decrypt_aead_b64, whichever input was wrong.
FailureIndistinguishable ==
    /\ (/\ call.fn = "decrypt_aead"
        /\ WellFormed(call.args.k, call.args.n_b64, call.args.ct_b64)
        /\ ~call.res.ok)
       => call.res = Err("Decrypt")
    /\ (/\ call.fn = "decrypt_aead_b64"
        /\ B64DecodeOk(call.args.k_b64)
        /\ WellFormed(B64Decode(call.args.k_b64), call.args.n_b64,
                      call.args.ct_b64)
        /\ ~call.res.ok)
       => call.res = Err("decrypt: decrypt failure (bad key/nonce/AAD/ciphertext)")

\* The boundary call failed on a ciphertext cut below the tag length, with
\* the right key, nonce and aad.
FailureWitness ==
    /\ Len(msgs) = 1
    /\ call.fn = "decrypt_aead_b64"
    /\ call.args.k_b64 = B64Encode(msgs[1].k)
    /\ call.args.n_b64 = msgs[1].n_b64
    /\ call.args.aad = msgs[1].aad
    /\ B64DecodeOk(call.args.ct_b64)
    /\ Len(B64Decode(call.args.ct_b64)) = 15
    /\ ~call.res.ok

\* C5 as claimed: no two encrypt_aead calls with the same key return the
\* same nonce.
NonceNeverRepeats ==
    \A i, j \in 1..Len(msgs) :
        (i < j /\ msgs[i].k = msgs[j].k) => msgs[i].n_b64 # msgs[j].n_b64

\* C5, amended. Every encrypt_aead call returns as its nonce the 24 bytes
\* the random source gave that call, whatever key, plaintext and aad are;
\* two calls with identical (key, plaintext, aad) whose draws differ return
\* different nonces and different ciphertexts.
NonceFromRng ==
    /\ \A i \in 1..Len(msgs) :
          /\ B64DecodeOk(msgs[i].n_b64)
          /\ B64Decode(msgs[i].n_b64) = msgs[i].rng
          /\ Len(B64Decode(msgs[i].n_b64)) = NonceLen
    /\ \A i, j \in 1..Len(msgs) :
          (/\ msgs[i].k = msgs[j].k
           /\ msgs[i].pt = msgs[j].pt
           /\ msgs[i].aad = msgs[j].aad
           /\ msgs[i].rng # msgs[j].rng)
          => /\ msgs[i].n_b64 # msgs[j].n_b64
             /\ msgs[i].ct_b64 # msgs[j].ct_b64

\* The same (key, plaintext, aad) was sealed twice with different draws.
NonceWitness ==
    /\ Len(msgs) = 2
    /\ msgs[1].k = msgs[2].k
    /\ msgs[1].pt = Hello
    /\ msgs[2].pt = Hello
    /\ msgs[1].aad = msgs[2].aad
    /\ msgs[1].rng # msgs[2].rng

\* Both calls are calls of fn.
Twice(fn) == prev.fn = fn /\ call.fn = fn

\* C6. Message keys: derive_message_key (and derive_message_key_b64) gives
\* the same 32-byte key for the same (km, counter), and for one km and two
\* different counters different info strings and different keys.
MessageKeysDistinct ==
    /\ Twice("derive_message_key") /\ prev.args.km = call.args.km
       => /\ call.res.ok /\ Len(call.res.val) = KeyLen
          /\ prev.args.counter = call.args.counter => prev.res = call.res
          /\ prev.args.counter # call.args.counter
             => /\ prev.args.info # call.args.info
                /\ prev.res.val # call.res.val
    /\ (/\ Twice("derive_message_key_b64")
        /\ prev.args.km_b64 = call.args.km_b64
        /\ call.res.ok)
       => /\ Len(B64Decode(call.res.val)) = KeyLen
          /\ prev.args.counter = call.args.counter => prev.res = call.res
          /\ prev.args.counter # call.args.counter
             => prev.res.val # call.res.val

\* Counters 1 and 11 of one master key gave two keys.
MessageKeysWitness ==
    /\ Twice("derive_message_key")
    /\ prev.args.km = call.args.km
    /\ prev.args.counter = 1
    /\ call.args.counter = 11
    /\ call.res.ok

\* C7. Domain separation: derive_master_key with the same (seed, salt,
\* params) gives bit-identical results for the same conversation id, and
\* for two different conversation ids different info strings and different
\* master keys.
MasterKeysSeparated ==
    (/\ Twice("derive_master_key")
     /\ prev.args.seed = call.args.seed
     /\ prev.args.salt = call.args.salt
     /\ prev.args.kdf = call.args.kdf)
    => /\ prev.args.conv_id = call.args.conv_id => prev.res = call.res
       /\ (prev.args.conv_id # call.args.conv_id /\ call.res.ok)
          => /\ prev.res.ok
             /\ prev.args.info # call.args.info
             /\ prev.res.val # call.res.val

\* The scenario's seed, salt and parameters gave keys for two conversations.
MasterKeysWitness ==
    /\ Twice("derive_master_key")
    /\ prev.args.seed = Seed1 /\ call.args.seed = Seed1
    /\ prev.args.salt = Salt7 /\ call.args.salt = Salt7
    /\ prev.args.kdf = DESKTOP_STRONG /\ call.args.kdf = DESKTOP_STRONG
    /\ prev.args.conv_id = ConvA /\ call.args.conv_id = ConvB
    /\ prev.res.ok /\ call.res.ok

\* The preset the table holds for a profile string.
PresetOf(profile) ==
    IF profile = "desktop" THEN DESKTOP_STRONG
    ELSE IF profile = "mobile" THEN MOBILE_STRONG
    ELSE LOW_POWER

\* C8. Parameter lookup is total: derive_master_key_b64 derives with
\* DESKTOP_STRONG for "desktop", MOBILE_STRONG for "mobile" and LOW_POWER,
\* the preset of the lowest memory cost, for every other string; it fails
\* only on the salt, never on the profile.
ProfileLookupTotal ==
    /\ LOW_POWER.m_cost_kib <= MOBILE_STRONG.m_cost_kib
    /\ LOW_POWER.m_cost_kib <= DESKTOP_STRONG.m_cost_kib
    /\ call.fn = "derive_master_key_b64"
       => IF B64DecodeOk(call.args.salt_b64)
             /\ Len(B64Decode(call.args.salt_b64)) >= 8
          THEN call.res =
                 Ok(B64Encode(DeriveMasterKey(call.args.seed,
                                              B64Decode(call.args.salt_b64),
                                              PresetOf(call.args.profile),
                                              call.args.conv_id).res.val))
          ELSE ~call.res.ok

\* A differently cased tag was looked up and the key was derived.
ProfileWitness ==
    /\ call.fn = "derive_master_key_b64"
    /\ call.args.profile = "Desktop"
    /\ call.res.ok

\* C9. Prekey zeroing: at every return of derive_master_key, with the key
\* or with an error, the prekey buffer holds zeros only.
PrekeyZeroed ==
    call.fn \in {"derive_master_key", "derive_master_key_b64"}
    => IsZero(call.frame.prekey)

\* derive_master_key returned a key; the prekey buffer had been filled.
PrekeyWitness ==
    /\ call.fn = "derive_master_key"
    /\ call.res.ok
    /\ Len(call.frame.prekey) = KeyLen
    /\ IsZero(call.frame.prekey)

\* C10. Key buffer zeroing, as claimed: at the return of derive_message_key
\* and of the four boundary functions, the expansion output, the master key
\* array, the decoded key vectors and the array copy hold zeros only.
KeyBuffersZeroed ==
    call.fn \in {"derive_message_key", "derive_master_key_b64",
                 "derive_message_key_b64", "encrypt_aead_b64",
                 "decrypt_aead_b64"}
    => /\ IsZero(call.frame.out)
       /\ IsZero(call.frame.km)
       /\ IsZero(call.frame.k)
       /\ IsZero(call.frame.arr)

====
